---- MODULE Spec2Model ----
(***************************************************************************)
(* Photo lifecycle store of the photo gallery: the in-memory collection    *)
(* kept by photoReducer (src/src/context/PhotoContext.tsx), the provider's *)
(* asynchronous operations around it, the PhotoDatabaseService calls they  *)
(* await (metadata table + binary storage) and the localStorage snapshot.  *)
(*                                                                         *)
(* Time is counted in days.  A Date is an integer, an undefined Date is    *)
(* NoDate, an ISO string is the record [iso |-> t], an absent (NULL) ISO   *)
(* string is NullIso.                                                      *)
(***************************************************************************)
EXTENDS Integers, Sequences, FiniteSets, TLC

VARIABLES
    photos,        \* state.photos                     (PhotoState)
    loading,       \* state.loading                    (PhotoState)
    savedPhotos,   \* localStorage item 'photos' (NoItem when absent)
    table,         \* rows of the 'photos' table, in created_at order
    bucket,        \* paths of the objects held by the 'photo-storage' bucket
    now,           \* the clock read by new Date() / Date.now()
    configured,    \* isSupabaseConfigured && supabase
    session,       \* what the user does in this session (a bound of the model)
    loadCall,      \* the loadPhotos() call of the mount effect
    cleanupCall,   \* the running cleanup() call of the cleanup effect
    calls,         \* deletePhoto / restorePhoto / permanentlyDeletePhoto calls
    adds,          \* addPhotos calls
    completed,     \* per finished call: how many lifecycle actions it dispatched,
                   \* whether its id was in the collection at that moment, and
                   \* whether its remote requests had succeeded
    removed,       \* ids taken out by PERMANENTLY_DELETE_PHOTO / CLEANUP_OLD_PHOTOS
    counters,      \* fresh-value counters and call counters
    selectedIds,   \* GalleryContent: the ids selected in the trash view
    camera,        \* CameraCapture: its state, its refs and the media streams
    viewer         \* PhotoModal: the photo shown and the photoList it is given

\* the state of the components around the provider
ui == <<selectedIds, camera, viewer>>

vars == <<photos, loading, savedPhotos, table, bucket, now, configured, session,
          loadCall, cleanupCall, calls, adds, completed, removed, counters, ui>>

----------------------------------------------------------------------------
(* Bounds of the model *)

\* time of mount; the rows of an earlier session are dated before it
StartDay == 11
\* days the clock may advance after mount
MaxDays == 1
\* deletePhoto + restorePhoto + permanentlyDeletePhoto calls per session
MaxCalls == 2
\* addPhotos calls per session
MaxAdds == 1
\* files per addPhotos batch
MaxBatch == 2

\* the sessions explored: one spent in the gallery and the trash over the
\* days, one that uploads a batch, one that uploads and then deletes
Sessions ==
    { [calls |-> MaxCalls, adds |-> 0,       batch |-> 0,        days |-> MaxDays],
      [calls |-> 1,        adds |-> MaxAdds, batch |-> MaxBatch, days |-> 0],
      [calls |-> MaxCalls, adds |-> 1,       batch |-> 1,        days |-> 0] }
\* retention window of CLEANUP_OLD_PHOTOS and cleanupOldPhotos, in days
RetentionDays == 10

\* an undefined Date
NoDate == -1
\* localStorage.getItem('photos') === null
NoItem == [present |-> FALSE, value |-> <<>>]
Item(value) == [present |-> TRUE, value |-> value]

----------------------------------------------------------------------------
(* Values *)

\* Date.prototype.toISOString / Date.prototype.toJSON
toISOString(t) == [iso |-> t]
\* new Date(isoString)
NewDate(s) == s.iso
\* a NULL deleted_at column / a deletedAt key left out of the JSON text
NullIso == [iso |-> NoDate]
\* dbPhoto.deleted_at ? new Date(dbPhoto.deleted_at) : undefined
DateOrUndefined(s) == IF s = NullIso THEN NoDate ELSE NewDate(s)

\* the File objects the upload dialog and the camera can hand to addPhotos:
\* the dropzone accepts a file by MIME type or by file extension, so a file
\* with an accepted extension and no image MIME type can be passed too
Files ==
    { [name |-> "a.jpg", size |-> 1000, type |-> "image/jpeg"],
      [name |-> "c.jpg", size |-> 1500, type |-> ""],
      [name |-> "b.png", size |-> 2000, type |-> "image/png"] }

\* file.type.startsWith('image/')
IsImage(file) == file.type \in {"image/jpeg", "image/png"}

\* str.split('/') of a URL kept as the sequence of its segments
Last2(segs) == SubSeq(segs, Len(segs) - 1, Len(segs))

\* `photos/${userId || 'anonymous'}/${fileName}` with fileName made of
\* Date.now(), a random suffix (n stands for both) and the extension
FilePath(n) == <<"photos", "anonymous", n>>

\* supabase.storage.from('photo-storage').getPublicUrl(filePath).publicUrl
getPublicUrl(filePath) ==
    <<"https:", "", "project.supabase.co", "storage", "v1", "object",
      "public", "photo-storage">> \o filePath

\* URL.createObjectURL(file)
createObjectURL(n) == <<"blob:", n>>

RECURSIVE Reverse(_)
Reverse(s) == IF s = <<>> THEN <<>> ELSE Reverse(Tail(s)) \o <<Head(s)>>

Ids(ps) == { ps[i].id : i \in 1..Len(ps) }

----------------------------------------------------------------------------
(* photoReducer *)

ADD_PHOTOS(state, payload) ==
    [state EXCEPT !.photos = state.photos \o payload, !.loading = FALSE]

\* DELETE_PHOTO that leaves a record that is already deleted as it is
DELETE_PHOTO_keepsFirstDeletedAt(state, payload, t) ==
    [state EXCEPT !.photos =
        [i \in 1..Len(state.photos) |->
            IF state.photos[i].id = payload /\ state.photos[i].status # "deleted"
            THEN [state.photos[i] EXCEPT !.status = "deleted", !.deletedAt = t]
            ELSE state.photos[i]]]

\* DELETE_PHOTO that records the deletion of an id it does not find
DELETE_PHOTO_upsert(state, payload, t) ==
    [state EXCEPT !.photos =
        IF payload \in Ids(state.photos)
        THEN [i \in 1..Len(state.photos) |->
                IF state.photos[i].id = payload
                THEN [state.photos[i] EXCEPT !.status = "deleted", !.deletedAt = t]
                ELSE state.photos[i]]
        ELSE Append(state.photos,
                    [id |-> payload, url |-> <<>>, file |-> FALSE, name |-> "",
                     size |-> 0, addedAt |-> t, deletedAt |-> t,
                     status |-> "deleted", source |-> "upload"])]

DELETE_PHOTO(state, payload, t) ==
    [state EXCEPT !.photos =
        [i \in 1..Len(state.photos) |->
            IF state.photos[i].id = payload
            THEN [state.photos[i] EXCEPT !.status = "deleted", !.deletedAt = t]
            ELSE state.photos[i]]]

\* RESTORE_PHOTO that sets the status and forgets to clear deletedAt
RESTORE_PHOTO_keepsDeletedAt(state, payload) ==
    [state EXCEPT !.photos =
        [i \in 1..Len(state.photos) |->
            IF state.photos[i].id = payload
            THEN [state.photos[i] EXCEPT !.status = "active"]
            ELSE state.photos[i]]]

\* RESTORE_PHOTO that builds the restored record anew, as an uploaded one
RESTORE_PHOTO_resetsSource(state, payload) ==
    [state EXCEPT !.photos =
        [i \in 1..Len(state.photos) |->
            IF state.photos[i].id = payload
            THEN [state.photos[i] EXCEPT !.status = "active", !.deletedAt = NoDate,
                                         !.source = "upload"]
            ELSE state.photos[i]]]

RESTORE_PHOTO(state, payload) ==
    [state EXCEPT !.photos =
        [i \in 1..Len(state.photos) |->
            IF state.photos[i].id = payload
            THEN [state.photos[i] EXCEPT !.status = "active", !.deletedAt = NoDate]
            ELSE state.photos[i]]]

\* PERMANENTLY_DELETE_PHOTO written with findIndex and splice: splice(-1, 1)
\* takes out the last record when no record has the id
PERMANENTLY_DELETE_PHOTO_splice(state, payload) ==
    [state EXCEPT !.photos =
        LET ps == state.photos
            index == IF payload \in Ids(ps)
                     THEN CHOOSE i \in 1..Len(ps) :
                             ps[i].id = payload /\ \A j \in 1..(i - 1) : ps[j].id # payload
                     ELSE Len(ps)
        IN  IF ps = <<>> THEN ps
            ELSE SubSeq(ps, 1, index - 1) \o SubSeq(ps, index + 1, Len(ps))]

PERMANENTLY_DELETE_PHOTO(state, payload) ==
    [state EXCEPT !.photos =
        LET Keep(photo) == photo.id # payload
        IN  SelectSeq(state.photos, Keep)]

LOAD_PHOTOS(state, payload) == [state EXCEPT !.photos = payload]

\* CLEANUP_OLD_PHOTOS that empties the trash whatever the age of its records
CLEANUP_OLD_PHOTOS_emptiesTrash(state, t) ==
    [state EXCEPT !.photos =
        LET Keep(photo) == photo.status # "deleted"
        IN  SelectSeq(state.photos, Keep)]

CLEANUP_OLD_PHOTOS(state, t) ==
    [state EXCEPT !.photos =
        LET tenDaysAgo == t - RetentionDays
            Keep(photo) ==
                IF photo.status = "deleted" /\ photo.deletedAt # NoDate
                THEN photo.deletedAt > tenDaysAgo
                ELSE TRUE
        IN  SelectSeq(state.photos, Keep)]

SET_LOADING(state, payload) == [state EXCEPT !.loading = payload]

\* one dispatch; t is the clock at the moment the reducer runs
photoReducer(state, action, t) ==
    CASE action.type = "SET_LOADING"              -> SET_LOADING(state, action.payload)
      [] action.type = "ADD_PHOTOS"               -> ADD_PHOTOS(state, action.payload)
      [] action.type = "DELETE_PHOTO"             -> DELETE_PHOTO(state, action.payload, t)
      [] action.type = "RESTORE_PHOTO"            -> RESTORE_PHOTO(state, action.payload)
      [] action.type = "PERMANENTLY_DELETE_PHOTO" -> PERMANENTLY_DELETE_PHOTO(state, action.payload)
      [] action.type = "LOAD_PHOTOS"              -> LOAD_PHOTOS(state, action.payload)
      [] action.type = "CLEANUP_OLD_PHOTOS"       -> CLEANUP_OLD_PHOTOS(state, t)
      [] OTHER                                    -> state

\* the dispatches of one continuation, applied in order
RECURSIVE Reduce(_, _, _)
Reduce(state, actions, t) ==
    IF actions = <<>> THEN state
    ELSE Reduce(photoReducer(state, Head(actions), t), Tail(actions), t)

Action(type, payload) == [type |-> type, payload |-> payload]

----------------------------------------------------------------------------
(* Conversions between table rows, photos and the localStorage snapshot *)

\* loadPhotos: database format to app format (no File object)
RowToPhoto(dbPhoto) ==
    [id        |-> dbPhoto.id,
     url       |-> dbPhoto.url,
     file      |-> FALSE,
     name      |-> dbPhoto.name,
     size      |-> dbPhoto.size,
     addedAt   |-> NewDate(dbPhoto.added_at),
     deletedAt |-> DateOrUndefined(dbPhoto.deleted_at),
     status    |-> dbPhoto.status,
     source    |-> dbPhoto.source]

RowsToPhotos(rows) == [i \in 1..Len(rows) |-> RowToPhoto(rows[i])]

\* addPhotos: the row returned by uploadPhoto to app format (keeps the File)
UploadedPhoto(dbPhoto) ==
    [id        |-> dbPhoto.id,
     url       |-> dbPhoto.url,
     file      |-> TRUE,
     name      |-> dbPhoto.name,
     size      |-> dbPhoto.size,
     addedAt   |-> NewDate(dbPhoto.added_at),
     deletedAt |-> NoDate,
     status    |-> dbPhoto.status,
     source    |-> dbPhoto.source]

\* addPhotos: the local-only record built in the catch branch
LocalPhoto(n, file, source, t) ==
    [id        |-> n,
     url       |-> createObjectURL(n),
     file      |-> TRUE,
     name      |-> file.name,
     size      |-> file.size,
     addedAt   |-> t,
     deletedAt |-> NoDate,
     status    |-> "active",
     source    |-> source]

\* JSON.stringify(state.photos): Dates become ISO strings, an undefined
\* deletedAt is left out, a File becomes {}
Stringify(ps) ==
    [i \in 1..Len(ps) |->
        [ps[i] EXCEPT !.addedAt = toISOString(ps[i].addedAt),
                      !.deletedAt = IF ps[i].deletedAt = NoDate THEN NullIso
                                    ELSE toISOString(ps[i].deletedAt)]]

\* JSON.parse(savedPhotos).map(...) of loadPhotos
ParseSaved(item) ==
    [i \in 1..Len(item) |->
        [item[i] EXCEPT !.addedAt = NewDate(item[i].addedAt),
                        !.deletedAt = DateOrUndefined(item[i].deletedAt)]]

----------------------------------------------------------------------------
(* PhotoDatabaseService: what one request does to the table and the bucket *)

RowIds(rows) == { rows[i].id : i \in 1..Len(rows) }

RowOf(rows, photoId) == rows[CHOOSE i \in 1..Len(rows) : rows[i].id = photoId]

\* getPhotos: select('*').order('created_at', { ascending: false })
getPhotos_select(rows) == Reverse(rows)

\* uploadPhoto: the row built from photoData and inserted
uploadPhoto_row(n, url, file, source, t) ==
    [id         |-> n,
     url        |-> url,
     name       |-> file.name,
     size       |-> file.size,
     added_at   |-> toISOString(t),
     deleted_at |-> NullIso,
     status     |-> "active",
     source     |-> source]

\* deletePhoto: update({status:'deleted', deleted_at}).eq('id', photoId)
deletePhoto_update(rows, photoId, t) ==
    [i \in 1..Len(rows) |->
        IF rows[i].id = photoId
        THEN [rows[i] EXCEPT !.status = "deleted", !.deleted_at = toISOString(t)]
        ELSE rows[i]]

\* restorePhoto: update({status:'active', deleted_at:null}).eq('id', photoId)
restorePhoto_update(rows, photoId) ==
    [i \in 1..Len(rows) |->
        IF rows[i].id = photoId
        THEN [rows[i] EXCEPT !.status = "active", !.deleted_at = NullIso]
        ELSE rows[i]]

\* permanentlyDeletePhoto / cleanupOldPhotos: the storage path taken from a url
StoragePathOf(url) == Last2(url)

\* permanentlyDeletePhoto that keeps the row as a tombstone
permanentlyDeletePhoto_delete_tombstone(rows, photoId) ==
    [i \in 1..Len(rows) |->
        IF rows[i].id = photoId
        THEN [rows[i] EXCEPT !.status = "permanently-deleted"]
        ELSE rows[i]]

\* permanentlyDeletePhoto: delete().eq('id', photoId)
permanentlyDeletePhoto_delete(rows, photoId) ==
    LET Keep(row) == row.id # photoId
    IN  SelectSeq(rows, Keep)

\* cleanupOldPhotos: select('id, url').eq('status','deleted').lt('deleted_at', tenDaysAgo)
cleanupOldPhotos_select(rows, tenDaysAgo) ==
    LET Old(row) == /\ row.status = "deleted"
                    /\ row.deleted_at # NullIso
                    /\ NewDate(row.deleted_at) < NewDate(toISOString(tenDaysAgo))
    IN  SelectSeq(rows, Old)

\* cleanupOldPhotos: delete().in('id', photoIds)
cleanupOldPhotos_delete(rows, oldPhotos) ==
    LET Keep(row) == row.id \notin RowIds(oldPhotos)
    IN  SelectSeq(rows, Keep)

\* cleanupOldPhotos: remove(filePaths)
cleanupOldPhotos_paths(oldPhotos) ==
    { StoragePathOf(oldPhotos[i].url) : i \in 1..Len(oldPhotos) }

----------------------------------------------------------------------------
(* PhotoProvider: the dispatches made by each continuation *)

\* loadPhotos: try / catch / finally after `await photoDB.getPhotos()`
loadPhotos_dispatches(ok, data, saved) ==
    IF ok
    THEN <<Action("LOAD_PHOTOS", RowsToPhotos(data)), Action("SET_LOADING", FALSE)>>
    ELSE IF saved.present
         THEN <<Action("LOAD_PHOTOS", ParseSaved(saved.value)), Action("SET_LOADING", FALSE)>>
         ELSE <<Action("SET_LOADING", FALSE)>>

\* cleanup: try / catch after `await photoDB.cleanupOldPhotos()`
cleanup_dispatches(ok) ==
    IF ok THEN <<Action("CLEANUP_OLD_PHOTOS", <<>>)>>
    ELSE <<Action("CLEANUP_OLD_PHOTOS", <<>>)>>

\* deletePhoto whose catch branch only logs the error
deletePhoto_dispatches_catchOnlyLogs(ok, id) ==
    IF ok THEN <<Action("DELETE_PHOTO", id)>>
    ELSE <<>>

\* deletePhoto: try / catch after `await photoDB.deletePhoto(id)`
deletePhoto_dispatches(ok, id) ==
    IF ok THEN <<Action("DELETE_PHOTO", id)>>
    ELSE <<Action("DELETE_PHOTO", id)>>

\* restorePhoto: try / catch after `await photoDB.restorePhoto(id)`
restorePhoto_dispatches(ok, id) ==
    IF ok THEN <<Action("RESTORE_PHOTO", id)>>
    ELSE <<Action("RESTORE_PHOTO", id)>>

\* permanentlyDeletePhoto: try / catch after `await photoDB.permanentlyDeletePhoto(id)`
permanentlyDeletePhoto_dispatches(ok, id) ==
    IF ok THEN <<Action("PERMANENTLY_DELETE_PHOTO", id)>>
    ELSE <<Action("PERMANENTLY_DELETE_PHOTO", id)>>

call_dispatches(op, ok, id) ==
    CASE op = "deletePhoto"            -> deletePhoto_dispatches(ok, id)
      [] op = "restorePhoto"           -> restorePhoto_dispatches(ok, id)
      [] op = "permanentlyDeletePhoto" -> permanentlyDeletePhoto_dispatches(ok, id)

\* the effect on [state.photos]: localStorage.setItem when photos.length > 0
SaveEffect(saved, ps) == IF Len(ps) > 0 THEN Item(Stringify(ps)) ELSE saved

\* the dispatches of one continuation and the effect run by the re-render;
\* every action but SET_LOADING makes a new state.photos array
Dispatch(actions) ==
    LET s == Reduce([photos |-> photos, loading |-> loading], actions, now)
        newArray == \E i \in 1..Len(actions) : actions[i].type # "SET_LOADING"
    IN  /\ photos' = s.photos
        /\ loading' = s.loading
        /\ savedPhotos' = IF newArray THEN SaveEffect(savedPhotos, s.photos)
                          ELSE savedPhotos

\* the results a request to the remote store can have: with no client
\* (supabase = null) every method but getPhotos throws at once
Outcomes == IF configured THEN BOOLEAN ELSE {FALSE}

\* no call is in progress
Quiet ==
    /\ loadCall.pc = "done"
    /\ cleanupCall.pc = "idle"
    /\ calls = {}
    /\ adds = {}

\* a continuation that runs as a microtask, before any other event: with no
\* client nothing is awaited over the network
Urgent == ~configured /\ ~Quiet

----------------------------------------------------------------------------
(* The components before the user has opened them *)

\* CameraCapture with isOpen = false: the useState and useRef initial values;
\* streamRef is 0 for null, requests are the getUserMedia calls awaited,
\* running the streams whose tracks have not been stopped
CameraClosed ==
    [isOpen |-> FALSE, capturedImage |-> FALSE, facingMode |-> "environment",
     isStreaming |-> FALSE, streamRef |-> 0, requests |-> {}, running |-> {},
     started |-> 0]

\* selectedPhoto = null, and the undefined that an array read outside the
\* array gives
NoPhoto == [id |-> 0]
UndefinedPhoto == [id |-> NoDate]

\* PhotoModal with state.selectedPhoto = null, under the gallery view that
\* GalleryContent starts with; index is the place in the list of the card
\* or of the neighbour that was selected last, 0 when none
ViewerClosed == [photo |-> NoPhoto, index |-> 0, currentView |-> "gallery"]

----------------------------------------------------------------------------
(* The state after PhotoProvider has mounted and its effects have started *)

\* rows left in the table by earlier sessions: deleted 11 days, exactly 10
\* days and 9 days before mount, and an active one
EarlierRow(n, status, deletedDay) ==
    [id         |-> n,
     url        |-> getPublicUrl(FilePath(n)),
     name       |-> "a.jpg",
     size       |-> 1000,
     added_at   |-> toISOString(0),
     deleted_at |-> IF deletedDay = NoDate THEN NullIso ELSE toISOString(deletedDay),
     status     |-> status,
     source     |-> IF n = 1 THEN "camera" ELSE "upload"]

EarlierTables ==
    { <<>>,
      <<EarlierRow(1, "deleted", StartDay - RetentionDays - 1),
        EarlierRow(2, "active", NoDate)>>,
      <<EarlierRow(1, "deleted", StartDay - RetentionDays),
        EarlierRow(2, "deleted", StartDay - RetentionDays + 1)>> }

\* the snapshot an earlier session left in localStorage
EarlierSnapshot ==
    Item(Stringify(RowsToPhotos(<<EarlierRow(2, "active", NoDate),
                                  EarlierRow(1, "deleted", StartDay - RetentionDays - 1)>>)))

\* values never generated before: gen_random_uuid() for a row id,
\* `${Date.now()}-${Math.random()...}` for a local id (j = 1) and for a
\* storage file name (j = 0), one pair per file k of addPhotos call cid
FirstFreshId == 3
Fresh(cid, k, j) == FirstFreshId + 2 * ((cid - 1) * MaxBatch + (k - 1)) + j

Init ==
    /\ photos = <<>>
    /\ loading = TRUE
    /\ configured \in BOOLEAN
    /\ session \in Sessions
    /\ table \in EarlierTables
    /\ savedPhotos \in {NoItem, EarlierSnapshot}
    /\ bucket = { FilePath(table[i].id) : i \in 1..Len(table) }
    /\ now = StartDay
    /\ loadCall = [pc |-> "getPhotos", ok |-> TRUE, data |-> <<>>]
    /\ cleanupCall = [pc |-> "select", tenDaysAgo |-> StartDay - RetentionDays,
                      oldPhotos |-> <<>>, ok |-> TRUE]
    /\ calls = {}
    /\ adds = {}
    /\ completed = {}
    /\ removed = {}
    /\ counters = [calls |-> 0, adds |-> 0,
                   timerDue |-> FALSE, cleanups |-> 0]
    /\ selectedIds = <<>>
    /\ camera = CameraClosed
    /\ viewer = ViewerClosed

----------------------------------------------------------------------------
(* loadPhotos (mount effect) *)

\* the table answers getPhotos; with no client getPhotos returns []
GetPhotosSettles ==
    /\ loadCall.pc = "getPhotos"
    /\ \E ok \in (IF configured THEN BOOLEAN ELSE {TRUE}) :
         loadCall' = [pc |-> "settled", ok |-> ok,
                      data |-> IF configured /\ ok THEN getPhotos_select(table) ELSE <<>>]
    /\ UNCHANGED <<ui, photos, loading, savedPhotos, table, bucket, now, configured, session,
                   cleanupCall, calls, adds, completed, removed, counters>>

\* the continuation of loadPhotos
LoadPhotosResumes ==
    /\ loadCall.pc = "settled"
    /\ Dispatch(loadPhotos_dispatches(loadCall.ok, loadCall.data, savedPhotos))
    /\ loadCall' = [pc |-> "done", ok |-> loadCall.ok, data |-> <<>>]
    /\ UNCHANGED <<ui, table, bucket, now, configured, session, cleanupCall, calls, adds, completed, removed, counters>>

----------------------------------------------------------------------------
(* cleanup (mount effect and setInterval) *)

\* setInterval(cleanup, 24h): a run is due each time a day has passed
CleanupTimerFires ==
    /\ counters.timerDue
    /\ cleanupCall.pc = "idle"
    /\ cleanupCall' = [pc |-> "select", tenDaysAgo |-> now - RetentionDays,
                       oldPhotos |-> <<>>, ok |-> TRUE]
    /\ counters' = [counters EXCEPT !.timerDue = FALSE]
    /\ UNCHANGED <<ui, photos, loading, savedPhotos, table, bucket, now, configured, session,
                   loadCall, calls, adds, completed, removed>>

\* cleanupOldPhotos: the select of the expired rows; a fetch error or an empty
\* result returns, a missing client throws
CleanupSelectSettles ==
    /\ cleanupCall.pc = "select"
    /\ \E ok \in Outcomes :
         LET oldPhotos == IF ok THEN cleanupOldPhotos_select(table, cleanupCall.tenDaysAgo)
                          ELSE <<>>
         IN  cleanupCall' =
                [cleanupCall EXCEPT !.pc = IF oldPhotos = <<>> THEN "settled" ELSE "remove",
                                    !.oldPhotos = oldPhotos,
                                    !.ok = configured]
    /\ UNCHANGED <<ui, photos, loading, savedPhotos, table, bucket, now, configured, session,
                   loadCall, calls, adds, completed, removed, counters>>

\* cleanupOldPhotos: storage remove(filePaths); an error is only logged
CleanupRemoveSettles ==
    /\ cleanupCall.pc = "remove"
    /\ \E ok \in BOOLEAN :
         bucket' = IF ok THEN bucket \ cleanupOldPhotos_paths(cleanupCall.oldPhotos)
                   ELSE bucket
    /\ cleanupCall' = [cleanupCall EXCEPT !.pc = "delete"]
    /\ UNCHANGED <<ui, photos, loading, savedPhotos, table, now, configured, session,
                   loadCall, calls, adds, completed, removed, counters>>

\* cleanupOldPhotos: delete().in('id', photoIds); an error is only logged
CleanupDeleteSettles ==
    /\ cleanupCall.pc = "delete"
    /\ \E ok \in BOOLEAN :
         table' = IF ok THEN cleanupOldPhotos_delete(table, cleanupCall.oldPhotos)
                  ELSE table
    /\ cleanupCall' = [cleanupCall EXCEPT !.pc = "settled"]
    /\ UNCHANGED <<ui, photos, loading, savedPhotos, bucket, now, configured, session,
                   loadCall, calls, adds, completed, removed, counters>>

\* the continuation of cleanup
CleanupResumes ==
    /\ cleanupCall.pc = "settled"
    /\ Dispatch(cleanup_dispatches(cleanupCall.ok))
    /\ cleanupCall' = [pc |-> "idle", tenDaysAgo |-> 0, oldPhotos |-> <<>>, ok |-> TRUE]
    /\ completed' = completed \cup
          { [kind |-> "cleanup", cid |-> counters.cleanups + 1,
             dispatched |-> Len(cleanup_dispatches(cleanupCall.ok)), found |-> TRUE,
             ok |-> cleanupCall.ok] }
    /\ removed' = removed \cup (Ids(photos) \ Ids(photos'))
    /\ counters' = [counters EXCEPT !.cleanups = @ + 1]
    /\ UNCHANGED <<ui, table, bucket, now, configured, session, loadCall, calls, adds>>

\* a day passes; every request is answered within the day it was sent
Tick ==
    /\ ~Urgent
    /\ Quiet
    /\ now < StartDay + session.days
    /\ ~counters.timerDue
    /\ now' = now + 1
    /\ counters' = [counters EXCEPT !.timerDue = TRUE]
    /\ UNCHANGED <<ui, photos, loading, savedPhotos, table, bucket, configured, session,
                   loadCall, cleanupCall, calls, adds, completed, removed>>

----------------------------------------------------------------------------
(* deletePhoto, restorePhoto, permanentlyDeletePhoto *)

PhotoOf(ps, id) == ps[CHOOSE i \in 1..Len(ps) : ps[i].id = id]

\* what the views offer for a photo: the delete button of a card or of the
\* viewer calls deletePhoto unless the photo is shown as deleted; restore and
\* the permanent-delete dialog belong to photos shown as deleted
Offered(op, photo) ==
    CASE op = "deletePhoto"            -> photo.status # "deleted"
      [] op = "restorePhoto"           -> photo.status = "deleted"
      [] op = "permanentlyDeletePhoto" -> photo.status = "deleted"

Ops == {"deletePhoto", "restorePhoto", "permanentlyDeletePhoto"}

FirstRequest(op) == IF op = "permanentlyDeletePhoto" THEN "select" ELSE "update"

Replace(set, old, new) == (set \ {old}) \cup {new}

\* a handler calls the operation; its first request is sent
CallStarts(op, id) ==
    /\ ~Urgent
    /\ counters.calls < session.calls
    /\ id \in Ids(photos)
    /\ Offered(op, PhotoOf(photos, id))
    /\ calls' = calls \cup
          { [cid |-> counters.calls + 1, op |-> op, id |-> id, pc |-> FirstRequest(op),
             calledAt |-> now, url |-> <<>>, ok |-> TRUE] }
    /\ counters' = [counters EXCEPT !.calls = @ + 1]
    /\ UNCHANGED <<ui, photos, loading, savedPhotos, table, bucket, now, configured, session,
                   loadCall, cleanupCall, adds, completed, removed>>

\* PhotoDatabaseService.deletePhoto / restorePhoto: the update request
UpdateSettles(c) ==
    /\ c.pc = "update"
    /\ \E ok \in Outcomes :
         /\ table' = IF ~ok THEN table
                     ELSE IF c.op = "deletePhoto"
                          THEN deletePhoto_update(table, c.id, c.calledAt)
                          ELSE restorePhoto_update(table, c.id)
         /\ calls' = Replace(calls, c, [c EXCEPT !.pc = "settled", !.ok = ok])
    /\ UNCHANGED <<ui, photos, loading, savedPhotos, bucket, now, configured, session,
                   loadCall, cleanupCall, adds, completed, removed, counters>>

\* PhotoDatabaseService.permanentlyDeletePhoto: select('url').single(); an
\* error or a missing row throws
PermanentSelectSettles(c) ==
    /\ c.pc = "select"
    /\ \E ok \in Outcomes :
         calls' = Replace(calls, c,
                    IF ok /\ c.id \in RowIds(table)
                    THEN [c EXCEPT !.pc = "remove", !.url = RowOf(table, c.id).url]
                    ELSE [c EXCEPT !.pc = "settled", !.ok = FALSE])
    /\ UNCHANGED <<ui, photos, loading, savedPhotos, table, bucket, now, configured, session,
                   loadCall, cleanupCall, adds, completed, removed, counters>>

\* permanentlyDeletePhoto whose storage error throws like the other two
PermanentRemoveSettles_throws(c) ==
    /\ c.pc = "remove"
    /\ \E ok \in BOOLEAN :
         /\ bucket' = IF ok THEN bucket \ {StoragePathOf(c.url)} ELSE bucket
         /\ calls' = Replace(calls, c,
                       IF ok THEN [c EXCEPT !.pc = "delete"]
                       ELSE [c EXCEPT !.pc = "settled", !.ok = FALSE])
    /\ UNCHANGED <<ui, photos, loading, savedPhotos, table, now, configured, session,
                   loadCall, cleanupCall, adds, completed, removed, counters>>

\* PhotoDatabaseService.permanentlyDeletePhoto: storage remove([filePath]);
\* an error is only logged
PermanentRemoveSettles(c) ==
    /\ c.pc = "remove"
    /\ \E ok \in BOOLEAN :
         bucket' = IF ok THEN bucket \ {StoragePathOf(c.url)} ELSE bucket
    /\ calls' = Replace(calls, c, [c EXCEPT !.pc = "delete"])
    /\ UNCHANGED <<ui, photos, loading, savedPhotos, table, now, configured, session,
                   loadCall, cleanupCall, adds, completed, removed, counters>>

\* PhotoDatabaseService.permanentlyDeletePhoto: delete().eq('id', photoId);
\* an error throws
PermanentDeleteSettles(c) ==
    /\ c.pc = "delete"
    /\ \E ok \in BOOLEAN :
         /\ table' = IF ok THEN permanentlyDeletePhoto_delete(table, c.id) ELSE table
         /\ calls' = Replace(calls, c, [c EXCEPT !.pc = "settled", !.ok = ok])
    /\ UNCHANGED <<ui, photos, loading, savedPhotos, bucket, now, configured, session,
                   loadCall, cleanupCall, adds, completed, removed, counters>>

\* the continuation of deletePhoto / restorePhoto / permanentlyDeletePhoto
CallResumes(c) ==
    /\ c.pc = "settled"
    /\ Dispatch(call_dispatches(c.op, c.ok, c.id))
    /\ calls' = calls \ {c}
    /\ completed' = completed \cup
          { [kind |-> "call", cid |-> c.cid,
             dispatched |-> Len(call_dispatches(c.op, c.ok, c.id)),
             found |-> c.id \in Ids(photos), ok |-> c.ok] }
    /\ removed' = removed \cup (Ids(photos) \ Ids(photos'))
    /\ UNCHANGED <<ui, table, bucket, now, configured, session, loadCall, cleanupCall, adds, counters>>

----------------------------------------------------------------------------
(* addPhotos *)

\* the batches handed to addPhotos: up to MaxBatch different files, listed
\* by size
Batches ==
    { b \in UNION { [1..n -> Files] : n \in 1..MaxBatch } :
        \A i, j \in 1..Len(b) : i < j => b[i].size < b[j].size }

\* the for loop of addPhotos: the next file after position k that passes
\* `file.type.startsWith('image/')`, Len(files) + 1 when there is none
NextUpload(files, k) ==
    IF \E j \in (k + 1)..Len(files) : IsImage(files[j])
    THEN CHOOSE j \in (k + 1)..Len(files) :
            /\ IsImage(files[j])
            /\ \A i \in (k + 1)..(j - 1) : ~IsImage(files[i])
    ELSE Len(files) + 1

\* the loop goes on to the next file, or leaves for the final dispatch
Advance(a, newPhotos) ==
    LET j == NextUpload(a.files, a.k)
    IN  [a EXCEPT !.k = j, !.newPhotos = newPhotos, !.fileName = 0,
                  !.pc = IF j > Len(a.files) THEN "settled" ELSE "upload"]

\* addPhotos(files, source) is called; with no image file the loop awaits
\* nothing and ADD_PHOTOS is dispatched in the same turn
addPhotos(files, source) ==
    /\ ~Urgent
    /\ counters.adds < session.adds
    /\ Len(files) <= session.batch
    /\ LET j == NextUpload(files, 0)
           sync == j > Len(files)
           a == [cid |-> counters.adds + 1, files |-> files, source |-> source,
                 k |-> j, pc |-> "upload", newPhotos |-> <<>>, fileName |-> 0]
       IN  /\ adds' = IF sync THEN adds ELSE adds \cup {a}
           /\ completed' = IF sync
                            THEN completed \cup {[kind |-> "add", cid |-> a.cid, dispatched |-> 1,
                                                   found |-> TRUE, ok |-> TRUE]}
                            ELSE completed
           /\ Dispatch(<<Action("SET_LOADING", TRUE)>>
                       \o (IF sync THEN <<Action("ADD_PHOTOS", <<>>)>> ELSE <<>>))
    /\ counters' = [counters EXCEPT !.adds = @ + 1]
    /\ UNCHANGED <<ui, table, bucket, now, configured, session, loadCall, cleanupCall, calls, removed>>

\* uploadPhoto: storage upload(filePath, file); an error (or no client)
\* throws, and the catch branch of addPhotos builds a local-only record
UploadSettles(a) ==
    /\ a.pc = "upload"
    /\ \E ok \in Outcomes :
         IF ok
         THEN /\ bucket' = bucket \cup {FilePath(Fresh(a.cid, a.k, 0))}
              /\ adds' = Replace(adds, a,
                           [a EXCEPT !.pc = "insert", !.fileName = Fresh(a.cid, a.k, 0)])
         ELSE /\ bucket' = bucket
              /\ adds' = Replace(adds, a,
                           Advance(a, Append(a.newPhotos,
                              LocalPhoto(Fresh(a.cid, a.k, 1), a.files[a.k], a.source, now))))
    /\ UNCHANGED <<ui, photos, loading, savedPhotos, table, now, configured, session,
                   loadCall, cleanupCall, calls, completed, removed, counters>>

\* uploadPhoto: insert(photoData).select().single(); an error throws, and
\* the catch branch of addPhotos builds a local-only record
InsertSettles(a) ==
    /\ a.pc = "insert"
    /\ \E ok \in BOOLEAN :
         LET row == uploadPhoto_row(Fresh(a.cid, a.k, 1), getPublicUrl(FilePath(a.fileName)),
                                    a.files[a.k], a.source, now)
         IN  IF ok
             THEN /\ table' = Append(table, row)
                  /\ adds' = Replace(adds, a,
                               Advance(a, Append(a.newPhotos, UploadedPhoto(row))))
             ELSE /\ table' = table
                  /\ adds' = Replace(adds, a,
                               Advance(a, Append(a.newPhotos,
                                  LocalPhoto(Fresh(a.cid, a.k, 1), a.files[a.k], a.source, now))))
    /\ UNCHANGED <<ui, photos, loading, savedPhotos, bucket, now, configured, session,
                   loadCall, cleanupCall, calls, completed, removed, counters>>

\* the end of addPhotos: dispatch ADD_PHOTOS with the records built
AddPhotosResumes(a) ==
    /\ a.pc = "settled"
    /\ Dispatch(<<Action("ADD_PHOTOS", a.newPhotos)>>)
    /\ adds' = adds \ {a}
    /\ completed' = completed \cup
          {[kind |-> "add", cid |-> a.cid, dispatched |-> 1, found |-> TRUE,
            ok |-> \A k \in 1..Len(a.newPhotos) : a.newPhotos[k].url # createObjectURL(a.newPhotos[k].id)]}
    /\ UNCHANGED <<ui, table, bucket, now, configured, session, loadCall, cleanupCall, calls,
                   removed, counters>>

\* the default of the parameter: source = 'upload'
DefaultSource == "upload"

\* PhotoUpload.onDrop: addPhotos(acceptedFiles)
OnDrop(acceptedFiles) == addPhotos(acceptedFiles, DefaultSource)

\* CameraCapture.savePhoto: addPhotos([file]) with the captured JPEG
CameraFile == [name |-> "camera.jpg", size |-> 500, type |-> "image/jpeg"]
SavePhoto == addPhotos(<<CameraFile>>, DefaultSource)

----------------------------------------------------------------------------
(* The query filters of the context *)

getActivePhotos(ps) ==
    LET Match(photo) == photo.status = "active"
    IN  SelectSeq(ps, Match)

getDeletedPhotos(ps) ==
    LET Match(photo) == photo.status = "deleted"
    IN  SelectSeq(ps, Match)

getCameraPhotos(ps) ==
    LET Match(photo) == photo.status = "active" /\ photo.source = "camera"
    IN  SelectSeq(ps, Match)

\* getUploadedPhotos that tests the source only
getUploadedPhotos_anyStatus(ps) ==
    LET Match(photo) == photo.source = "upload"
    IN  SelectSeq(ps, Match)

getUploadedPhotos(ps) ==
    LET Match(photo) == photo.status = "active" /\ photo.source = "upload"
    IN  SelectSeq(ps, Match)

----------------------------------------------------------------------------
Next ==
    \/ GetPhotosSettles
    \/ LoadPhotosResumes
    \/ CleanupTimerFires
    \/ CleanupSelectSettles
    \/ CleanupRemoveSettles
    \/ CleanupDeleteSettles
    \/ CleanupResumes
    \/ Tick
    \/ \E op \in Ops, id \in Ids(photos) : CallStarts(op, id)
    \/ \E c \in calls : UpdateSettles(c)
    \/ \E c \in calls : PermanentSelectSettles(c)
    \/ \E c \in calls : PermanentRemoveSettles(c)
    \/ \E c \in calls : PermanentDeleteSettles(c)
    \/ \E c \in calls : CallResumes(c)
    \/ \E acceptedFiles \in Batches : OnDrop(acceptedFiles)
    \/ SavePhoto
    \/ \E a \in adds : UploadSettles(a)
    \/ \E a \in adds : InsertSettles(a)
    \/ \E a \in adds : AddPhotosResumes(a)

Spec == Init /\ [][Next]_vars

----------------------------------------------------------------------------
(* A session spent in the gallery and the trash while the days pass: the     *)
(* cleanup timer keeps firing, every request is answered and every           *)
(* continuation runs.                                                        *)

InitRetention == Init /\ session.adds = 0

\* what happens without the user: the timer, the answers of the remote store
\* and the continuations
Scheduled ==
    \/ GetPhotosSettles
    \/ LoadPhotosResumes
    \/ CleanupTimerFires
    \/ CleanupSelectSettles
    \/ CleanupRemoveSettles
    \/ CleanupDeleteSettles
    \/ CleanupResumes
    \/ Tick
    \/ \E c \in calls : UpdateSettles(c)
    \/ \E c \in calls : PermanentSelectSettles(c)
    \/ \E c \in calls : PermanentRemoveSettles(c)
    \/ \E c \in calls : PermanentDeleteSettles(c)
    \/ \E c \in calls : CallResumes(c)

NextRetention ==
    \/ GetPhotosSettles
    \/ LoadPhotosResumes
    \/ CleanupTimerFires
    \/ CleanupSelectSettles
    \/ CleanupRemoveSettles
    \/ CleanupDeleteSettles
    \/ CleanupResumes
    \/ Tick
    \/ \E op \in Ops, id \in Ids(photos) : CallStarts(op, id)
    \/ \E c \in calls : UpdateSettles(c)
    \/ \E c \in calls : PermanentSelectSettles(c)
    \/ \E c \in calls : PermanentRemoveSettles(c)
    \/ \E c \in calls : PermanentDeleteSettles(c)
    \/ \E c \in calls : CallResumes(c)

\* the event loop never idles while an event is ready: setInterval fires
\* while the provider is mounted, every request to the remote store is
\* answered, and every continuation is run
RetentionSpec == InitRetention /\ [][NextRetention]_vars /\ WF_vars(Scheduled)

----------------------------------------------------------------------------
(* A session of repeated clicks on one photo: several deletePhoto and        *)
(* restorePhoto calls are in flight at once with a configured remote store.  *)

\* deletePhoto + restorePhoto calls of that session
MaxOverlap == 3

InitOverlap ==
    /\ photos = <<>>
    /\ loading = TRUE
    /\ configured = TRUE
    /\ session = [calls |-> MaxOverlap, adds |-> 0, batch |-> 0, days |-> 0]
    /\ table = <<EarlierRow(2, "active", NoDate)>>
    /\ savedPhotos = NoItem
    /\ bucket = { FilePath(table[i].id) : i \in 1..Len(table) }
    /\ now = StartDay
    /\ loadCall = [pc |-> "getPhotos", ok |-> TRUE, data |-> <<>>]
    /\ cleanupCall = [pc |-> "select", tenDaysAgo |-> StartDay - RetentionDays,
                      oldPhotos |-> <<>>, ok |-> TRUE]
    /\ calls = {}
    /\ adds = {}
    /\ completed = {}
    /\ removed = {}
    /\ counters = [calls |-> 0, adds |-> 0,
                   timerDue |-> FALSE, cleanups |-> 0]
    /\ selectedIds = <<>>
    /\ camera = CameraClosed
    /\ viewer = ViewerClosed

NextOverlap ==
    \/ GetPhotosSettles
    \/ LoadPhotosResumes
    \/ CleanupSelectSettles
    \/ CleanupResumes
    \/ \E op \in {"deletePhoto", "restorePhoto"}, id \in Ids(photos) : CallStarts(op, id)
    \/ \E c \in calls : UpdateSettles(c)
    \/ \E c \in calls : CallResumes(c)

OverlapSpec == InitOverlap /\ [][NextOverlap]_vars

----------------------------------------------------------------------------
(* GalleryContent: multi-select in the trash view *)

\* the main state, left alone by the handlers that only set component state
provider == <<photos, loading, savedPhotos, table, bucket, now, configured, session,
              loadCall, cleanupCall, calls, adds, completed, removed, counters>>

\* prev.includes(id) ? prev.filter(i => i !== id) : [...prev, id]
Toggle(prev, id) ==
    IF \E k \in 1..Len(prev) : prev[k] = id
    THEN LET Keep(i) == i # id IN SelectSeq(prev, Keep)
    ELSE Append(prev, id)

\* deletedPhotos.length > 0 && selectedIds.length === deletedPhotos.length
allSelected(deletedPhotos, selected) ==
    Len(deletedPhotos) > 0 /\ Len(selected) = Len(deletedPhotos)

\* handleSelect, called by the checkbox of a card of the trash grid
HandleSelect(id) ==
    /\ id \in Ids(getDeletedPhotos(photos))
    /\ selectedIds' = Toggle(selectedIds, id)
    /\ UNCHANGED <<provider, camera, viewer>>

\* handleSelectAll; its button is rendered while the trash is not empty
HandleSelectAll ==
    LET deletedPhotos == getDeletedPhotos(photos)
    IN  /\ Len(deletedPhotos) > 0
        /\ selectedIds' = IF allSelected(deletedPhotos, selectedIds) THEN <<>>
                          ELSE [k \in 1..Len(deletedPhotos) |-> deletedPhotos[k].id]
        /\ UNCHANGED <<provider, camera, viewer>>

\* handleDeleteSelected: permanentlyDeletePhoto(id) for each selected id, then
\* the selection is emptied; its button is rendered while the trash is not
\* empty and enabled while something is selected
HandleDeleteSelected ==
    /\ ~Urgent
    /\ Len(getDeletedPhotos(photos)) > 0
    /\ Len(selectedIds) # 0
    /\ counters.calls + Len(selectedIds) <= session.calls
    /\ calls' = calls \cup
          { [cid |-> counters.calls + k, op |-> "permanentlyDeletePhoto",
             id |-> selectedIds[k], pc |-> FirstRequest("permanentlyDeletePhoto"),
             calledAt |-> now, url |-> <<>>, ok |-> TRUE] : k \in 1..Len(selectedIds) }
    /\ counters' = [counters EXCEPT !.calls = @ + Len(selectedIds)]
    /\ selectedIds' = <<>>
    /\ UNCHANGED <<photos, loading, savedPhotos, table, bucket, now, configured, session,
                   loadCall, cleanupCall, adds, completed, removed, camera, viewer>>

\* calls started in a session in the trash view
MaxTrashCalls == 2

\* the trash holds a photo deleted 11 days ago and one deleted 9 days ago
InitTrash ==
    /\ photos = <<>>
    /\ loading = TRUE
    /\ configured = TRUE
    /\ session = [calls |-> MaxTrashCalls, adds |-> 0, batch |-> 0, days |-> 0]
    /\ table = <<EarlierRow(1, "deleted", StartDay - RetentionDays - 1),
                 EarlierRow(2, "deleted", StartDay - RetentionDays + 1)>>
    /\ savedPhotos = NoItem
    /\ bucket = { FilePath(table[i].id) : i \in 1..Len(table) }
    /\ now = StartDay
    /\ loadCall = [pc |-> "getPhotos", ok |-> TRUE, data |-> <<>>]
    /\ cleanupCall = [pc |-> "select", tenDaysAgo |-> StartDay - RetentionDays,
                      oldPhotos |-> <<>>, ok |-> TRUE]
    /\ calls = {}
    /\ adds = {}
    /\ completed = {}
    /\ removed = {}
    /\ counters = [calls |-> 0, adds |-> 0,
                   timerDue |-> FALSE, cleanups |-> 0]
    /\ selectedIds = <<>>
    /\ camera = CameraClosed
    /\ viewer = ViewerClosed

NextTrash ==
    \/ GetPhotosSettles
    \/ LoadPhotosResumes
    \/ CleanupSelectSettles
    \/ CleanupRemoveSettles
    \/ CleanupDeleteSettles
    \/ CleanupResumes
    \/ \E id \in Ids(photos) : HandleSelect(id)
    \/ HandleSelectAll
    \/ HandleDeleteSelected
    \/ \E op \in {"restorePhoto", "permanentlyDeletePhoto"}, id \in Ids(photos) :
          CallStarts(op, id)
    \/ \E c \in calls : UpdateSettles(c)
    \/ \E c \in calls : PermanentSelectSettles(c)
    \/ \E c \in calls : PermanentRemoveSettles(c)
    \/ \E c \in calls : PermanentDeleteSettles(c)
    \/ \E c \in calls : CallResumes(c)

TrashSpec == InitTrash /\ [][NextTrash]_vars

----------------------------------------------------------------------------
(* The claims *)

\* "older than 10 days relative to the current time t"
Expired(photo, t) ==
    /\ photo.status = "deleted"
    /\ photo.deletedAt # NoDate
    /\ photo.deletedAt < t - RetentionDays

\* the step is the continuation of a call that dispatches a lifecycle
\* transition for the record id, or of a cleanup run
TransitionOn(id) ==
    \/ CleanupResumes
    \/ \E c \in calls : c.id = id /\ CallResumes(c)

\* C1: in every reachable state every record of the in-memory collection has
\* status = deleted exactly when its deletedAt is set.
C1_DeletedIffDeletedAt ==
    \A i \in 1..Len(photos) :
        (photos[i].status = "deleted") <=> (photos[i].deletedAt # NoDate)

\* C1 witness: calls have finished and the collection holds a record deleted
\* in this session next to an active one.
C1_Witness ==
    /\ \E c \in completed : c.kind = "call"
    /\ \E i, j \in 1..Len(photos) :
          /\ photos[i].status = "deleted" /\ photos[i].deletedAt = now
          /\ photos[j].status = "active" /\ photos[j].deletedAt = NoDate

\* C2 (the claim as stated): the CLEANUP_OLD_PHOTOS dispatch removes exactly
\* the records that are deleted with a deletedAt older than 10 days, and keeps
\* all the others unmodified and in order.
C2_CleanupRemovesExactlyExpired ==
    [][CleanupResumes =>
          LET Keep(photo) == ~Expired(photo, now)
          IN  photos' = SelectSeq(photos, Keep)]_vars

\* C3 (the claim as stated): no completed update is lost: a step keeps every
\* record of the collection as it is, unless the step itself dispatches a
\* lifecycle transition for that record (or the cleanup).
C3_NoLostUpdate ==
    [][\A i \in 1..Len(photos) :
          \/ TransitionOn(photos[i].id)
          \/ \E j \in 1..Len(photos') :
                /\ photos'[j].id = photos[i].id
                /\ photos'[j].status = photos[i].status
                /\ photos'[j].deletedAt = photos[i].deletedAt]_vars

\* the collection after one dispatch of the transition of operation op on id
Applied(op, id) ==
    LET state == [photos |-> photos, loading |-> loading]
    IN  CASE op = "deletePhoto"            -> DELETE_PHOTO(state, id, now).photos
          [] op = "restorePhoto"           -> RESTORE_PHOTO(state, id).photos
          [] op = "permanentlyDeletePhoto" -> PERMANENTLY_DELETE_PHOTO(state, id).photos
          [] op = "cleanup"                -> CLEANUP_OLD_PHOTOS(state, now).photos

\* C4: softDelete, restore, permanentlyDelete and cleanup dispatch their
\* in-memory transition exactly once per call, in the continuation that runs
\* after the remote call has settled, whether it succeeded or failed; no other
\* step of these calls touches the collection.
C4_DispatchedOnceAfterSettling ==
    [][/\ \A c \in calls :
            CallResumes(c) =>
               /\ c.pc = "settled"
               /\ photos' = Applied(c.op, c.id)
               /\ completed' \ completed =
                     {[kind |-> "call", cid |-> c.cid, dispatched |-> 1,
                       found |-> c.id \in Ids(photos), ok |-> c.ok]}
       /\ CleanupResumes =>
               /\ cleanupCall.pc = "settled"
               /\ photos' = Applied("cleanup", 0)
               /\ \E n \in 1..(MaxDays + 1) :
                     completed' \ completed =
                        {[kind |-> "cleanup", cid |-> n, dispatched |-> 1, found |-> TRUE,
                          ok |-> cleanupCall.ok]}
       /\ (\/ \E c \in calls : c \notin calls' \/ c.pc # "settled"
           \/ cleanupCall.pc # "idle") =>
               \/ photos' = photos
               \/ LoadPhotosResumes
               \/ CleanupResumes
               \/ \E c \in calls : CallResumes(c)
               \/ \E a \in adds : AddPhotosResumes(a)]_vars

\* C4 witness: with no remote store configured (every remote call fails) a
\* deletePhoto call has finished and its record is deleted in memory.
C4_Witness ==
    /\ ~configured
    /\ \E c \in completed : c.kind = "call" /\ c.dispatched = 1
    /\ \E c \in completed : c.kind = "cleanup" /\ c.dispatched = 1
    /\ \E i \in 1..Len(photos) : photos[i].status = "deleted"

\* the collection new is old followed by one record per file of the batch:
\* active, without deletedAt, with the file's size, the given source and an
\* id that no other record of the collection has
AppendedOnePerFile(files, source, old, new) ==
    /\ Len(new) = Len(old) + Len(files)
    /\ SubSeq(new, 1, Len(old)) = old
    /\ \A k \in 1..Len(files) :
          LET photo == new[Len(old) + k]
          IN  /\ photo.status = "active"
              /\ photo.deletedAt = NoDate
              /\ photo.size = files[k].size
              /\ photo.source = source
              /\ \A j \in 1..Len(new) : j # Len(old) + k => new[j].id # photo.id

\* C5 (the claim as stated): the ADD_PHOTOS dispatch of every addPhotos call
\* appends exactly one record per input file: active, no deletedAt, the file's
\* size, the given source, an id different from every other record's id.
C5_AddAppendsOnePerFile ==
    [][/\ \A a \in adds :
            AddPhotosResumes(a) => AppendedOnePerFile(a.files, a.source, photos, photos')
       /\ \A files \in Batches :
            (addPhotos(files, DefaultSource) /\ NextUpload(files, 0) > Len(files))
               => AppendedOnePerFile(files, DefaultSource, photos, photos')]_vars

\* the step is the continuation of a call of operation op for the record id
ResumesFor(op, id) == \E c \in calls : c.op = op /\ c.id = id /\ CallResumes(c)

\* C6 (the claim as stated): a record leaves the collection only from the
\* deleted state (by permanentlyDelete or cleanup), and the only status
\* changes are active -> deleted by softDelete and deleted -> active by
\* restore.
C6_RemovedOnlyFromDeleted ==
    [][\A i \in 1..Len(photos) :
          LET photo == photos[i]
          IN  IF photo.id \notin Ids(photos')
              THEN /\ photo.status = "deleted"
                   /\ CleanupResumes \/ ResumesFor("permanentlyDeletePhoto", photo.id)
              ELSE \A j \in 1..Len(photos') :
                      (photos'[j].id = photo.id /\ photos'[j].status # photo.status) =>
                         \/ /\ photo.status = "active"
                            /\ photos'[j].status = "deleted"
                            /\ ResumesFor("deletePhoto", photo.id)
                         \/ /\ photo.status = "deleted"
                            /\ photos'[j].status = "active"
                            /\ ResumesFor("restorePhoto", photo.id)]_vars

\* C7 (the claim as stated): an id removed from the collection by
\* permanentlyDelete or cleanup never appears in the collection again.
C7_RemovalIsTerminal == removed \cap Ids(photos) = {}

\* both startup activities have completed
StartupDone(load, cnt) == load.pc = "done" /\ cnt.cleanups >= 1

\* C8 (the claim as stated): at the moment the second of the two startup
\* activities (LOAD_PHOTOS, CLEANUP_OLD_PHOTOS) completes, the collection
\* holds no deleted record whose deletedAt is older than 10 days.
C8_NoExpiredAfterStartup ==
    [][(~StartupDone(loadCall, counters) /\ StartupDone(loadCall', counters')) =>
          \A i \in 1..Len(photos') : ~Expired(photos'[i], now')]_vars

\* C9 (the claim as stated): the delete request of cleanupOldPhotos never
\* deletes a table row whose status is active when the row is deleted.
C9_CleanupDeletesNoActiveRow ==
    [][CleanupDeleteSettles =>
          \A i \in 1..Len(table) :
              table[i].status = "active" => table[i].id \in RowIds(table')]_vars

\* C10 (the claim as stated): at startup, when the remote store is
\* unconfigured or its fetch fails and a snapshot exists, the records of the
\* snapshot become the collection.
C10_SnapshotLoadedWithoutRemote ==
    [][(LoadPhotosResumes /\ (~configured \/ ~loadCall.ok) /\ savedPhotos.present) =>
          photos' = ParseSaved(savedPhotos.value)]_vars

\* C11 (the claim as stated): after every change to the in-memory collection
\* the localStorage snapshot is the stringified current collection, the empty
\* collection included.
C11_SnapshotEqualsCollection ==
    [][photos' # photos => savedPhotos' = Item(Stringify(photos'))]_vars

\* the records of a sequence
Elems(ps) == { ps[i] : i \in 1..Len(ps) }

\* C12 (the claim as stated): the record added for a photo saved from the
\* camera dialog is returned by getCameraPhotos and not by getUploadedPhotos.
C12_CameraPhotoHasCameraSource ==
    [][\A a \in adds :
          (a.files = <<CameraFile>> /\ AddPhotosResumes(a)) =>
             \A i \in (Len(photos) + 1)..Len(photos') :
                /\ photos'[i].source = "camera"
                /\ photos'[i] \in Elems(getCameraPhotos(photos'))
                /\ photos'[i] \notin Elems(getUploadedPhotos(photos'))]_vars

\* the path under which the object of a stored URL was uploaded
UploadPathOf(url) == CHOOSE p \in bucket : getPublicUrl(p) = url

\* C13 (the claim as stated): the storage path that permanentlyDeletePhoto and
\* cleanupOldPhotos derive from a record's URL and pass to the storage delete
\* call is the path under which uploadPhoto stored the file.
C13_RemovePathIsUploadPath ==
    [][/\ \A c \in calls :
            (PermanentRemoveSettles(c) /\ \E p \in bucket : getPublicUrl(p) = c.url) =>
               StoragePathOf(c.url) = UploadPathOf(c.url)
       /\ CleanupRemoveSettles =>
            \A i \in 1..Len(cleanupCall.oldPhotos) :
               LET url == cleanupCall.oldPhotos[i].url
               IN  (\E p \in bucket : getPublicUrl(p) = url) =>
                      StoragePathOf(url) = UploadPathOf(url)]_vars

\* C14 (the claim as stated): for a table and a collection holding the same
\* records, at the same current time, the ids removed by CLEANUP_OLD_PHOTOS
\* are the ids of the rows cleanupOldPhotos selects for deletion.
C14_CleanupSameIdsInBoth ==
    LET ps == RowsToPhotos(table)
        kept == CLEANUP_OLD_PHOTOS([photos |-> ps, loading |-> FALSE], now).photos
    IN  Ids(ps) \ Ids(kept) = RowIds(cleanupOldPhotos_select(table, now - RetentionDays))

\* the collection after DELETE_PHOTO and then RESTORE_PHOTO for id
DeletedThenRestored(ps, id) ==
    RESTORE_PHOTO(DELETE_PHOTO([photos |-> ps, loading |-> loading], id, now), id).photos

\* C15: softDelete(id) followed by restore(id) leaves the record id active
\* with deletedAt unset and its other fields as before, and leaves every other
\* record and the order of the collection unchanged.
C15_DeleteThenRestore ==
    \A i \in 1..Len(photos) :
        LET after == DeletedThenRestored(photos, photos[i].id)
        IN  /\ Len(after) = Len(photos)
            /\ after[i] = [photos[i] EXCEPT !.status = "active", !.deletedAt = NoDate]
            /\ \A j \in 1..Len(photos) : j # i => after[j] = photos[j]

\* the collection after the dispatches of one permanentlyDeletePhoto(id) call
\* whose remote calls ended with outcome ok
AfterPermanentlyDelete(ps, ok, id) ==
    Reduce([photos |-> ps, loading |-> loading],
           permanentlyDeletePhoto_dispatches(ok, id), now).photos

\* C16: permanentlyDelete(id) applied twice gives the same collection as
\* applied once, for every reachable collection and every id, present or
\* absent (a removed id, or 0, which no record ever has), whether the remote
\* calls succeed or fail.
C16_PermanentlyDeleteIdempotent ==
    \A id \in Ids(photos) \cup removed \cup {0} : \A ok1, ok2 \in BOOLEAN :
        LET once == AfterPermanentlyDelete(photos, ok1, id)
        IN  AfterPermanentlyDelete(once, ok2, id) = once

\* C16 witness: a call has removed a record from the collection while its
\* remote delete failed (the row is still in the table), and the collection
\* still holds records, so that present and absent ids are applied to it.
C16_Witness ==
    /\ \E c \in completed : c.kind = "call"
    /\ \E id \in removed : id \in RowIds(table) /\ id \notin Ids(photos)
    /\ photos # <<>>

\* result holds exactly the records of ps whose status and source are in the
\* given sets, in the relative order they have in ps
ExactlyInOrder(result, ps, statuses, sources) ==
    LET idx == { i \in 1..Len(ps) : ps[i].status \in statuses /\ ps[i].source \in sources }
    IN  /\ Len(result) = Cardinality(idx)
        /\ \A i \in idx : result[Cardinality({ j \in idx : j <= i })] = ps[i]

\* C17: over every reachable collection, getActivePhotos returns exactly the
\* active records, getDeletedPhotos exactly the deleted ones, getUploadedPhotos
\* exactly the active ones with source upload, getCameraPhotos exactly the
\* active ones with source camera, each in the order of the collection (the
\* filters read the collection and assign nothing).
C17_FiltersExactInOrder ==
    /\ ExactlyInOrder(getActivePhotos(photos), photos, {"active"}, {"upload", "camera"})
    /\ ExactlyInOrder(getDeletedPhotos(photos), photos, {"deleted"}, {"upload", "camera"})
    /\ ExactlyInOrder(getUploadedPhotos(photos), photos, {"active"}, {"upload"})
    /\ ExactlyInOrder(getCameraPhotos(photos), photos, {"active"}, {"camera"})

\* C17 witness: the collection holds an active camera record and a deleted
\* upload record, so the filters give different, non-empty answers.
C17_Witness ==
    \E i, j \in 1..Len(photos) :
        /\ photos[i].status = "active" /\ photos[i].source = "camera"
        /\ photos[j].status = "deleted" /\ photos[j].source = "upload"

\* every record of old that is still in new has the id and the source it had:
\* position by position when no record was taken out, else by id
KeepsIdAndSource(old, new) ==
    IF Len(new) >= Len(old)
    THEN \A i \in 1..Len(old) : new[i].id = old[i].id /\ new[i].source = old[i].source
    ELSE /\ \A j \in 1..Len(new) : \E i \in j..Len(old) :
               old[i].id = new[j].id /\ old[i].source = new[j].source
         /\ \A i \in 1..Len(old), j \in 1..Len(new) :
               old[i].id = new[j].id => old[i].source = new[j].source

\* C18: a softDelete, restore, permanentlyDelete, add or cleanup step leaves
\* the id and the source of every record that stays in the collection as they
\* were.
C18_IdAndSourceNeverChange ==
    [][\/ KeepsIdAndSource(photos, photos')
       \/ ~(\/ CleanupResumes
            \/ \E c \in calls : CallResumes(c)
            \/ \E a \in adds : AddPhotosResumes(a)
            \/ \E files \in Batches : OnDrop(files)
            \/ SavePhoto)]_vars

\* C18 witness: calls have finished and the collection holds a camera record
\* that was restored next to another record.
C18_Witness ==
    /\ \E c \in completed : c.kind = "call"
    /\ Len(photos) >= 2
    /\ \E i \in 1..Len(photos) : photos[i].source = "camera" /\ photos[i].status = "active"

\* C19: the continuation of a deletePhoto, restorePhoto or
\* permanentlyDeletePhoto call whose id is not in the collection leaves the
\* collection as it is and ends the call normally, whether its remote call
\* succeeded or failed.
C19_AbsentIdIsNoOp ==
    [][\A c \in calls :
          (CallResumes(c) /\ c.id \notin Ids(photos)) =>
             /\ photos' = photos
             /\ c \notin calls'
             /\ \E done \in completed' \ completed : done.kind = "call" /\ done.cid = c.cid]_vars

\* C19 witness: a call has finished whose id was not in the collection when
\* its transition was dispatched, and the collection holds records.
C19_Witness ==
    /\ \E c \in completed : c.kind = "call" /\ ~c.found
    /\ photos # <<>>

\* C20 (the claim as stated): in every reachable state the ids of the records
\* of the in-memory collection are pairwise distinct.
C20_IdsPairwiseDistinct ==
    \A i, j \in 1..Len(photos) : i # j => photos[i].id # photos[j].id

\* the collection holds a record id in the trash, deleted at day d
InTrash(id, d) ==
    \E i \in 1..Len(photos) :
        photos[i].id = id /\ photos[i].status = "deleted" /\ photos[i].deletedAt = d

\* a cleanup run is still to dispatch at a time when a record deleted at day
\* d is older than 10 days: the run in progress or due today, or the one of
\* the next day
RunAfterExpiry(d) ==
    \/ (counters.timerDue \/ cleanupCall.pc # "idle") /\ d + RetentionDays < now
    \/ now < StartDay + session.days /\ d + RetentionDays < now + 1

\* the deletion days that are more than 10 days old before the last day
DeletionDays == 0..(StartDay + MaxDays - RetentionDays - 1)

C22_NoTombstone ==
    /\ [](/\ \A i \in 1..Len(photos) : photos[i].status \in {"active", "deleted"}
          /\ \A i \in 1..Len(table) : table[i].status \in {"active", "deleted"})
    /\ [][\A c \in calls :
             /\ (PermanentDeleteSettles(c) /\ \E d \in calls' : d.cid = c.cid /\ d.ok) =>
                   /\ c.id \notin RowIds(table')
                   /\ Len(table') <= Len(table)
             /\ (CallResumes(c) /\ c.op = "permanentlyDeletePhoto") =>
                   /\ c.id \notin Ids(photos')
                   /\ Len(photos') <= Len(photos)]_vars

\* C22 witness: a permanentlyDeletePhoto call has finished; its record is
\* out of the collection and its row out of the table, which still holds a row.
C22_Witness ==
    /\ \E c \in completed : c.kind = "call" /\ c.found
    /\ counters.cleanups = 0
    /\ \E id \in removed : id \notin Ids(photos) /\ id \notin RowIds(table)
    /\ table # <<>>

\* every request of the session so far has succeeded
AllSucceeded ==
    /\ configured
    /\ loadCall.ok
    /\ \A c \in completed : c.ok

\* C23 (the claim as stated): when every remote call has succeeded and no
\* deletePhoto or restorePhoto call is in flight for a record, the record's
\* status in the collection is the status of its row in the table.
C23_StatusAgreesWithStore ==
    AllSucceeded =>
        \A i \in 1..Len(photos) :
            LET id == photos[i].id
            IN  (id \in RowIds(table) /\ \A c \in calls : c.id # id) =>
                    photos[i].status = RowOf(table, id).status

\* C24 (the claim as stated): selectedIds holds only ids of records that are
\* in the trash, and Delete Selected starts permanentlyDeletePhoto only for
\* records whose status is deleted at that moment.
C24_SelectionWithinTrash ==
    /\ [](\A k \in 1..Len(selectedIds) : selectedIds[k] \in Ids(getDeletedPhotos(photos)))
    /\ [][HandleDeleteSelected =>
             \A c \in calls' \ calls :
                /\ c.id \in Ids(photos)
                /\ \A i \in 1..Len(photos) : photos[i].id = c.id => photos[i].status = "deleted"]_vars

\* C25 (the claim as stated): loading is true while an addPhotos call is in
\* flight, and false once no addPhotos call and no startup load is in flight.
C25_LoadingWhileAdding ==
    /\ adds # {} => loading
    /\ (adds = {} /\ loadCall.pc = "done") => ~loading

\* the collection after the dispatches of one deletePhoto(id) call whose
\* remote call ended with outcome ok
AfterSoftDelete(ps, ok, id) ==
    Reduce([photos |-> ps, loading |-> loading], deletePhoto_dispatches(ok, id), now).photos

\* C26: softDelete of a record that is already deleted leaves it deleted with
\* deletedAt set to the current time, in memory whatever the outcome of the
\* remote call and in the table when the update succeeds; a cleanup run of
\* any of the next 9 days then keeps the record and the row.
C26_SoftDeleteRestartsWindow ==
    /\ \A i \in 1..Len(photos) : \A ok \in BOOLEAN :
          photos[i].status = "deleted" =>
             LET after == AfterSoftDelete(photos, ok, photos[i].id)
                 later == now + RetentionDays - 1
             IN  /\ after[i] = [photos[i] EXCEPT !.deletedAt = now]
                 /\ ~Expired(after[i], later)
                 /\ after[i] \in
                       Elems(CLEANUP_OLD_PHOTOS([photos |-> after, loading |-> loading],
                                                later).photos)
    /\ \A i \in 1..Len(table) :
          table[i].status = "deleted" =>
             LET after == deletePhoto_update(table, table[i].id, now)
                 later == now + RetentionDays - 1
             IN  /\ after[i] = [table[i] EXCEPT !.deleted_at = toISOString(now)]
                 /\ table[i].id \notin
                       RowIds(cleanupOldPhotos_select(after, later - RetentionDays))

\* C26 witness: the collection and the table hold a record deleted more than
\* 10 days ago, whose retention window has run out.
C26_Witness ==
    /\ \E i \in 1..Len(photos) : Expired(photos[i], now)
    /\ \E i \in 1..Len(table) :
          table[i].status = "deleted" /\ NewDate(table[i].deleted_at) < now - RetentionDays

\* the call c after the step, when the step was a request of c settling
StepOf(c, d) == d \in calls' /\ d.cid = c.cid /\ c \notin calls'

\* C27: in permanentlyDeletePhoto a storage removal that fails (the object
\* is still in the bucket) is followed by the row deletion all the same; a
\* fetch that fails or finds no row ends the call with an error and leaves
\* the bucket and the table alone; a row deletion that leaves the row in the
\* table ends the call with an error, and one that ends without error has
\* removed the row.
C27_PermanentDeleteErrors ==
    [][\A c \in calls : \A d \in calls' :
          (c.op = "permanentlyDeletePhoto" /\ StepOf(c, d)) =>
             /\ c.pc = "remove" => d.pc = "delete"
             /\ c.pc = "select" =>
                   /\ c.id \notin RowIds(table) => d.pc = "settled"
                   /\ d.pc = "settled" =>
                         ~d.ok /\ table' = table /\ bucket' = bucket
                   /\ d.pc # "settled" =>
                         d.pc = "remove" /\ table' = table /\ bucket' = bucket
             /\ c.pc = "delete" =>
                   /\ d.pc = "settled"
                   /\ bucket' = bucket
                   /\ d.ok => c.id \notin RowIds(table')
                   /\ (c.id \in RowIds(table) /\ c.id \in RowIds(table')) => ~d.ok]_vars

\* C27 witness: a permanentlyDeletePhoto call has ended without error and
\* removed the row, while the object of the row, which the storage request did
\* not remove, is still stored.
C27_Witness ==
    \E c \in calls :
       /\ c.op = "permanentlyDeletePhoto" /\ c.pc = "settled" /\ c.ok
       /\ \E path \in bucket : getPublicUrl(path) = c.url
       /\ c.id \notin RowIds(table)

\* C28 (the claim as stated): when the insert request of uploadPhoto settles,
\* with or without error, the object the call uploaded is either referred to
\* by a row of the table or no longer in the bucket.
C28_UploadLeavesNoOrphan ==
    [][\A a \in adds :
          (a.pc = "insert" /\ a \notin adds') =>
             \/ FilePath(a.fileName) \notin bucket'
             \/ \E i \in 1..Len(table') :
                   table'[i].url = getPublicUrl(FilePath(a.fileName))]_vars

----------------------------------------------------------------------------
(* CameraCapture: the dialog, its camera requests and the streams acquired.
   A stream is named by the number of the getUserMedia request that returned
   it; running holds the streams whose tracks have not been stopped. *)

\* getUserMedia requests of one session of the dialog
MaxRequests == 5

Flip(mode) == IF mode = "user" THEN "environment" ELSE "user"

\* <video ref={videoRef}> is rendered when the dialog is open and shows no
\* captured image
VideoMounted(cam) == cam.isOpen /\ ~cam.capturedImage

\* startCamera up to its await: the tracks of streamRef.current are stopped
\* (the ref keeps the stream), then getUserMedia is called
startCamera(cam) ==
    [cam EXCEPT !.running = @ \ {cam.streamRef},
                !.requests = @ \cup {cam.started + 1},
                !.started = @ + 1]

\* stopCamera
stopCamera(cam) ==
    [cam EXCEPT !.running = @ \ {cam.streamRef},
                !.streamRef = 0,
                !.isStreaming = FALSE]

\* useEffect [isOpen, startCamera, stopCamera, capturedImage]; its cleanup
\* reads the isOpen of the render before, which was true whenever the
\* dialog was rendered, so the cleanup stops nothing
StartEffect(cam) == IF cam.isOpen /\ ~cam.capturedImage THEN startCamera(cam) ELSE cam

\* useEffect [facingMode, isStreaming, isOpen, startCamera]
RestartEffect(cam) == IF cam.isStreaming /\ cam.isOpen THEN startCamera(cam) ELSE cam

\* the gallery opens the dialog: isOpen changes, both effects run
OpenCamera ==
    /\ ~camera.isOpen
    /\ camera.started + 1 <= MaxRequests
    /\ camera' = RestartEffect(StartEffect([camera EXCEPT !.isOpen = TRUE]))
    /\ UNCHANGED <<provider, selectedIds, viewer>>

\* startCamera after its await: the stream is kept only if the video
\* element is mounted; setIsStreaming(true) re-runs the second effect when
\* it changes isStreaming
GetUserMediaResolves(r) ==
    /\ r \in camera.requests
    /\ (VideoMounted(camera) /\ ~camera.isStreaming) => camera.started + 1 <= MaxRequests
    /\ LET got == [camera EXCEPT !.requests = @ \ {r}, !.running = @ \cup {r}]
           kept == [got EXCEPT !.streamRef = r, !.isStreaming = TRUE]
       IN  camera' = IF ~VideoMounted(camera) THEN got
                     ELSE IF camera.isStreaming THEN kept
                     ELSE RestartEffect(kept)
    /\ UNCHANGED <<provider, selectedIds, viewer>>

\* startCamera's catch branch: the error is logged and shown
GetUserMediaRejects(r) ==
    /\ r \in camera.requests
    /\ camera' = [camera EXCEPT !.requests = @ \ {r}]
    /\ UNCHANGED <<provider, selectedIds, viewer>>

\* switchCamera (the button is rendered while isStreaming): facingMode
\* changes, startCamera is a new callback, both effects run
switchCamera ==
    /\ camera.isOpen /\ camera.isStreaming
    /\ camera.started + 2 <= MaxRequests
    /\ camera' = RestartEffect(StartEffect([camera EXCEPT !.facingMode = Flip(@)]))
    /\ UNCHANGED <<provider, selectedIds, viewer>>

\* capturePhoto (the button is rendered while isStreaming)
capturePhoto ==
    /\ VideoMounted(camera) /\ camera.isStreaming
    /\ camera' = RestartEffect(StartEffect(stopCamera([camera EXCEPT !.capturedImage = TRUE])))
    /\ UNCHANGED <<provider, selectedIds, viewer>>

\* retakePhoto: setCapturedImage(null); startCamera(); then the first
\* effect runs because capturedImage changed
retakePhoto ==
    /\ camera.isOpen /\ camera.capturedImage
    /\ camera.started + 2 <= MaxRequests
    /\ camera' = StartEffect(startCamera([camera EXCEPT !.capturedImage = FALSE]))
    /\ UNCHANGED <<provider, selectedIds, viewer>>

\* handleClose: stopCamera(); setCapturedImage(null); onClose()
handleClose ==
    /\ camera.isOpen
    /\ camera' = RestartEffect(StartEffect(
                    [stopCamera(camera) EXCEPT !.capturedImage = FALSE, !.isOpen = FALSE]))
    /\ UNCHANGED <<provider, selectedIds, viewer>>

InitCamera == InitOverlap

NextCamera ==
    \/ OpenCamera
    \/ \E r \in camera.requests : GetUserMediaResolves(r)
    \/ \E r \in camera.requests : GetUserMediaRejects(r)
    \/ switchCamera
    \/ capturePhoto
    \/ retakePhoto
    \/ handleClose

CameraSpec == InitCamera /\ [][NextCamera]_vars

\* C29 (the claim as stated): once the dialog has been closed and no camera
\* request is pending, no acquired stream has running tracks.
C29_NoStreamLeftRunning ==
    (~camera.isOpen /\ camera.started > 0 /\ camera.requests = {}) => camera.running = {}

----------------------------------------------------------------------------
(* PhotoModal under GalleryContent: a photo is opened from the grid of the
   current view and the viewer moves along the list of that view, while the
   startup load, the startup cleanup and one upload go on. *)

Views == {"gallery", "camera", "trash"}

\* the photoList prop that GalleryContent passes to PhotoModal
photoList(ps, currentView) ==
    CASE currentView = "gallery" -> getUploadedPhotos(ps)
      [] currentView = "camera"  -> getCameraPhotos(ps)
      [] currentView = "trash"   -> getDeletedPhotos(ps)

\* photoList.findIndex(p => p.id === photo.id), counted from 0
findIndex(list, id) ==
    IF \E k \in 1..Len(list) : list[k].id = id
    THEN (CHOOSE k \in 1..Len(list) :
             list[k].id = id /\ \A j \in 1..(k - 1) : list[j].id # id) - 1
    ELSE -1

\* photoList[i] with i counted from 0
At(list, i) == IF i \in 0..(Len(list) - 1) THEN list[i + 1] ELSE UndefinedPhoto

\* the modal is rendered and listens to the keyboard only with a photo
ModalOpen == viewer.photo \notin {NoPhoto, UndefinedPhoto}

\* setSelectedPhoto(photoList[i]) from the viewer
Select(list, i) == [viewer EXCEPT !.photo = At(list, i), !.index = i + 1]

\* if (idx > 0) setSelectedPhoto(photoList[idx - 1])
Previous ==
    LET list == photoList(photos, viewer.currentView)
        idx  == findIndex(list, viewer.photo.id)
    IN  viewer' = IF idx > 0 THEN Select(list, idx - 1) ELSE viewer

\* if (idx < photoList.length - 1) setSelectedPhoto(photoList[idx + 1])
Following ==
    LET list == photoList(photos, viewer.currentView)
        idx  == findIndex(list, viewer.photo.id)
    IN  viewer' = IF idx < Len(list) - 1 THEN Select(list, idx + 1) ELSE viewer

\* GalleryContent: the navigation changes the view; the modal covers it
SetCurrentView(view) ==
    /\ ~ModalOpen
    /\ view # viewer.currentView
    /\ viewer' = [viewer EXCEPT !.currentView = view]
    /\ UNCHANGED <<provider, selectedIds, camera>>

\* PhotoGrid.handlePhotoClick on the card at place k of the view
handlePhotoClick(k) ==
    /\ ~ModalOpen
    /\ k \in 1..Len(photoList(photos, viewer.currentView))
    /\ viewer' = Select(photoList(photos, viewer.currentView), k - 1)
    /\ UNCHANGED <<provider, selectedIds, camera>>

\* handleKeyDown with e.key = 'ArrowLeft' / 'ArrowRight'
KeyArrowLeft  == ModalOpen /\ Previous /\ UNCHANGED <<provider, selectedIds, camera>>
KeyArrowRight == ModalOpen /\ Following /\ UNCHANGED <<provider, selectedIds, camera>>

\* the previous / next buttons
goPrev == ModalOpen /\ Previous /\ UNCHANGED <<provider, selectedIds, camera>>
goNext == ModalOpen /\ Following /\ UNCHANGED <<provider, selectedIds, camera>>

\* handleCloseModal: setSelectedPhoto(null)
handleCloseModal ==
    /\ ModalOpen
    /\ viewer' = [viewer EXCEPT !.photo = NoPhoto, !.index = 0]
    /\ UNCHANGED <<provider, selectedIds, camera>>

InitViewer ==
    /\ photos = <<>>
    /\ loading = TRUE
    /\ configured = TRUE
    /\ session = [calls |-> 0, adds |-> 1, batch |-> MaxBatch, days |-> 0]
    /\ table = <<EarlierRow(1, "deleted", StartDay - RetentionDays - 1),
                 EarlierRow(2, "active", NoDate)>>
    /\ savedPhotos \in {NoItem, EarlierSnapshot}
    /\ bucket = { FilePath(table[i].id) : i \in 1..Len(table) }
    /\ now = StartDay
    /\ loadCall = [pc |-> "getPhotos", ok |-> TRUE, data |-> <<>>]
    /\ cleanupCall = [pc |-> "select", tenDaysAgo |-> StartDay - RetentionDays,
                      oldPhotos |-> <<>>, ok |-> TRUE]
    /\ calls = {}
    /\ adds = {}
    /\ completed = {}
    /\ removed = {}
    /\ counters = [calls |-> 0, adds |-> 0,
                   timerDue |-> FALSE, cleanups |-> 0]
    /\ selectedIds = <<>>
    /\ camera = CameraClosed
    /\ viewer = ViewerClosed

NextViewer ==
    \/ GetPhotosSettles
    \/ LoadPhotosResumes
    \/ CleanupSelectSettles
    \/ CleanupRemoveSettles
    \/ CleanupDeleteSettles
    \/ CleanupResumes
    \/ \E acceptedFiles \in Batches : OnDrop(acceptedFiles)
    \/ \E a \in adds : UploadSettles(a)
    \/ \E a \in adds : InsertSettles(a)
    \/ \E a \in adds : AddPhotosResumes(a)
    \/ \E view \in Views : SetCurrentView(view)
    \/ \E k \in 1..Len(photos) : handlePhotoClick(k)
    \/ KeyArrowLeft
    \/ KeyArrowRight
    \/ goPrev
    \/ goNext
    \/ handleCloseModal

ViewerSpec == InitViewer /\ [][NextViewer]_vars

\* the selected photo is the one shown at place k of the current list
ShownAt(k) ==
    LET list == photoList(photos, viewer.currentView)
    IN  k \in 1..Len(list) /\ viewer.index = k /\ list[k] = viewer.photo

\* C30 (the claim as stated): a navigation step of the viewer leaves the
\* selection as it was or selects an element of the current photoList; at
\* the first photo of the list 'previous' leaves the selection as it was
\* and at the last photo 'next' leaves it as it was.
C30_NavigationStaysInList ==
    [][(KeyArrowLeft \/ KeyArrowRight \/ goPrev \/ goNext) =>
          LET list == photoList(photos, viewer.currentView)
          IN  /\ viewer'.photo = viewer.photo \/ viewer'.photo \in Elems(list)
              /\ viewer'.index \in 0..Len(list)
              /\ (ShownAt(1) /\ (KeyArrowLeft \/ goPrev)) => viewer' = viewer
              /\ (ShownAt(Len(list)) /\ (KeyArrowRight \/ goNext)) => viewer' = viewer]_vars

====
